---------------------------- MODULE Spec2Model ----------------------------
(***************************************************************************)
(* Model of label_reconciliations: the text column type                    *)
(* (lib/column_types/userWeightedText.py) and the main program             *)
(* (reconcile.py).                                                         *)
(*                                                                         *)
(* A text is a sequence of one-character strings.  A group is the pandas   *)
(* Series handed to reconcile: a sequence of entries, each with the user   *)
(* of its index and its text.  An explanation ("reason") is the sequence   *)
(* of the words of the formatted text; a comma or "score=" that the format *)
(* glues to an argument is a word of its own.                              *)
(***************************************************************************)
EXTENDS Integers, Sequences, FiniteSets, TLC

VARIABLES
    group,              \* reconcile's argument: <<[user, text], ...>>
    args,               \* reconcile's argument: the parsed command line
    pc,                 \* position inside reconcile
    trustedUserWeights, \* reconcile's local: <<[key, val], ...>>, later keys win
    values,             \* reconcile's local: the whitespace-normalized texts
    filled,             \* reconcile's local: <<[value, count], ...>>
    count,              \* reconcile's local
    blanks,             \* reconcile's local
    combos,             \* the pairs enumerated by the running top_* function
    raws,               \* the fuzz score of each enumerated pair
    scores,             \* the local list of the running top_* function
    top,                \* reconcile's local: <<>> or <<the best score>>
    result,             \* <<>> or <<[reason, value]>>: what reconcile returned
    mpc,                \* position inside main
    cli,                \* the command line main was started with
    input,              \* the input file as the format plug-in read it
    files,              \* the output files written so far
    reconciled          \* the number of groups reconcile has returned for

fnVars == <<group, args, pc, trustedUserWeights, values, filled, count, blanks,
            combos, raws, scores, top, result>>
mainVars == <<mpc, cli, input, files, reconciled>>
vars == <<group, args, pc, trustedUserWeights, values, filled, count, blanks,
          combos, raws, scores, top, result, mpc, cli, input, files, reconciled>>

---------------------------------------------------------------------------
(* Bounds of the model *)

MaxGroup == 3

MaxRecords == 2

---------------------------------------------------------------------------
(* Characters and Python's str methods *)

\* a Python list: the comprehension f, evaluated once
List(f) == f \o <<>>

IsSpace(c) == c \in {" ", "\n"}

\* \w of the re module, on the characters the model uses
IsWordChar(c) == c \in {"O", "H", "I", "A", "S", "o", "h", "i", "a", "b", "s", "x"}

LowerChar(c) ==
    CASE c = "O" -> "o"
      [] c = "H" -> "h"
      [] c = "I" -> "i"
      [] c = "A" -> "a"
      [] c = "S" -> "s"
      [] OTHER -> c

Lower(s) == List([i \in 1..Len(s) |-> LowerChar(s[i])])

RECURSIVE SplitSep(_, _)
SplitSep(s, sep) ==
    IF \A i \in 1..Len(s) : s[i] # sep
    THEN <<s>>
    ELSE LET i == CHOOSE k \in 1..Len(s) :
                      s[k] = sep /\ \A j \in 1..(k - 1) : s[j] # sep
         IN  <<SubSeq(s, 1, i - 1)>> \o SplitSep(SubSeq(s, i + 1, Len(s)), sep)

\* str.splitlines: a final line break opens no further line
SplitLines(s) ==
    LET p == SplitSep(s, "\n")
    IN  IF p[Len(p)] = <<>> THEN SubSeq(p, 1, Len(p) - 1) ELSE p

\* str.split(): the maximal runs of non-whitespace
RECURSIVE Split(_)
Split(s) ==
    IF s = <<>> THEN <<>>
    ELSE IF IsSpace(s[1]) THEN Split(Tail(s))
    ELSE LET n == CHOOSE k \in 1..Len(s) :
                      /\ \A j \in 1..k : ~IsSpace(s[j])
                      /\ (k = Len(s) \/ IsSpace(s[k + 1]))
         IN  <<SubSeq(s, 1, n)>> \o Split(SubSeq(s, n + 1, Len(s)))

RECURSIVE Join(_, _)
Join(pieces, sep) ==
    IF pieces = <<>> THEN <<>>
    ELSE IF Len(pieces) = 1 THEN pieces[1]
    ELSE pieces[1] \o <<sep>> \o Join(Tail(pieces), sep)

RECURSIVE LStrip(_)
LStrip(s) == IF s # <<>> /\ IsSpace(s[1]) THEN LStrip(Tail(s)) ELSE s

RECURSIVE RStrip(_)
RStrip(s) ==
    IF s # <<>> /\ IsSpace(s[Len(s)]) THEN RStrip(SubSeq(s, 1, Len(s) - 1)) ELSE s

Strip(s) == RStrip(LStrip(s))

\* re.sub(r'\W+', '', value).lower()
Squished(s) == Lower(SelectSeq(s, IsWordChar))

\* '\n'.join([' '.join(ln.split()) for ln in str(g).splitlines()])
ConvLine(s) ==
    LET lines == SplitLines(s)
    IN  Join(List([i \in 1..Len(lines) |-> Join(Split(lines[i]), " ")]), "\n")

\* inflect's plural(word, count) for the words the program passes, with
\* E.defnoun('The', 'All')
P(word, n) ==
    IF n = 1 THEN word
    ELSE CASE word = "The" -> "All"
           [] word = "record" -> "records"
           [] word = "is" -> "are"
           [] word = "blank" -> "blanks"

---------------------------------------------------------------------------
(* sorted(..., reverse=True): stable, by a key that is a tuple of integers *)

LexGt(a, b) ==
    \E i \in 1..Len(a) : a[i] > b[i] /\ \A j \in 1..(i - 1) : a[j] = b[j]

\* the index x goes behind every index whose key is not smaller
InsertDesc(keys, perm, x) ==
    LET n == Cardinality({i \in 1..Len(perm) : ~LexGt(keys[x], keys[perm[i]])})
    IN  SubSeq(perm, 1, n) \o <<x>> \o SubSeq(perm, n + 1, Len(perm))

RECURSIVE SortPerm(_, _)
SortPerm(keys, n) ==
    IF n = 0 THEN <<>> ELSE InsertDesc(keys, SortPerm(keys, n - 1), n)

SortedReverse(items, keys) ==
    LET perm == SortPerm(keys, Len(items))
    IN  List([i \in 1..Len(items) |-> items[perm[i]]])

\* itertools.combinations(range(1, n + 1), 2)
RECURSIVE PairsFrom(_, _, _)
PairsFrom(i, j, n) ==
    IF i >= n THEN <<>>
    ELSE IF j > n THEN PairsFrom(i + 1, i + 2, n)
    ELSE <<(<<i, j>>)>> \o PairsFrom(i, j + 1, n)

Combinations2(n) == PairsFrom(1, 2, n)

---------------------------------------------------------------------------
(* The fuzzywuzzy scores.  The library is not part of the program: a call  *)
(* returns one of the scores the installed library can produce for the     *)
(* pair.  partial_ratio scores two equal strings 100, two empty strings 0   *)
(* or 100 by the release, and scores 0 when one of two different strings   *)
(* is empty or a line break; token_set_ratio scores 0 when a string has no *)
(* letter or digit.                                                        *)

PartialScores == {89, 90}

TokenScores == {49, 50}

PartialRatioOutcomes(a, b) ==
    IF a = b THEN (IF a = <<>> THEN {0, 100} ELSE {100})
    ELSE IF (\A j \in 1..Len(a) : IsSpace(a[j])) \/ (\A j \in 1..Len(b) : IsSpace(b[j]))
    THEN {0}
    ELSE PartialScores

TokenSetRatioOutcomes(a, b) ==
    IF SelectSeq(a, IsWordChar) = <<>> \/ SelectSeq(b, IsWordChar) = <<>>
    THEN {0}
    ELSE TokenScores

\* one of the at most two scores of a pair
Pick(outcomes, high) ==
    CHOOSE x \in outcomes :
        \A y \in outcomes : IF high THEN y <= x ELSE x <= y

\* the choices of a score for each pair, none where a pair has one score
Picks(combo, two) ==
    {high \in [1..Len(combo) -> BOOLEAN] :
        \A k \in 1..Len(combo) : high[k] => two[k]}

---------------------------------------------------------------------------
(* --user-weights: the option string "foo:-10,bar:25" is the sequence of   *)
(* its comma separated entries, each the sequence of its colon separated   *)
(* fields; a key is a text, a weight field is a numeral.  After            *)
(* parse_command_line the option is a dict: a sequence of <<key, integer>>,*)
(* later keys winning.                                                     *)

Numerals == {"-100", "10", "70"}

\* int(value)
IntValue(s) ==
    CASE s = "-100" -> -100
      [] s = "10" -> 10
      [] s = "70" -> 70

\* the comprehension of reconcile.py:143 and userWeightedText.py:21 raises
\* ValueError on an entry that is not key:integer
Malformed(items) ==
    \E i \in 1..Len(items) : Len(items[i]) # 2 \/ items[i][2] \notin Numerals

\* args.user_weights is truthy
Truthy(uw) == uw.items # <<>>

\* userWeightedText.py:20-23: what the first statement of reconcile does
\* with args.user_weights; a dict has no split
UserWeightsRaise(uw) ==
    Truthy(uw) /\ (uw.kind = "dict" \/ Malformed(uw.items))

TrustedUserWeights(uw) ==
    IF Truthy(uw)
    THEN List([i \in 1..Len(uw.items) |->
                  [key |-> uw.items[i][1], val |-> IntValue(uw.items[i][2])]])
    ELSE <<>>

None == <<"None">>

\* trustedUserWeights.get(userName, 0)
WeightsGet(tw, userName) ==
    LET hits == {i \in 1..Len(tw) : tw[i].key = userName}
    IN  IF hits = {} THEN 0
        ELSE tw[CHOOSE i \in hits : \A j \in hits : j <= i].val

---------------------------------------------------------------------------
(* only_filled_values *)

ExactScore(value, n) == [value |-> value, count |-> n]

\* a key kept every time it is met
DictKeys_All(s) == s

\* the keys of a dict in insertion order
RECURSIVE DictKeys(_)
DictKeys(s) ==
    IF s = <<>> THEN <<>>
    ELSE LET r == DictKeys(SubSeq(s, 1, Len(s) - 1))
             x == s[Len(s)]
         IN  IF \E i \in 1..Len(r) : r[i] = x THEN r ELSE Append(r, x)

\* of the longest values the last, not the first
Longest_LastTie(vals) ==
    vals[CHOOSE i \in 1..Len(vals) :
             /\ \A j \in 1..Len(vals) : Len(vals[j]) <= Len(vals[i])
             /\ \A j \in 1..Len(vals) : Len(vals[j]) = Len(vals[i]) => j <= i]

\* the first value, whatever its length
Longest_First(vals) == vals[1]

\* sorted(vals, key=len, reverse=True)[0]
Longest(vals) ==
    SortedReverse(vals, List([i \in 1..Len(vals) |-> <<Len(vals[i])>>]))[1]

NonEmpty(v) == v # <<>>

\* value.strip() left out
StrippedFilled_NoStrip(vals) == SelectSeq(vals, NonEmpty)

\* the values that value.strip() leaves non-empty, stripped
StrippedFilled(vals) ==
    SelectSeq(List([i \in 1..Len(vals) |-> Strip(vals[i])]), NonEmpty)

\* the squished key kept as the value of its key-group
OnlyFilledValues_Keys(vals) ==
    LET stripped == StrippedFilled(vals)
        keys == DictKeys(List([i \in 1..Len(stripped) |-> Squished(stripped[i])]))
        same_values(k) == SelectSeq(stripped, LAMBDA v : Squished(v) = k)
        only_filled == List([k \in 1..Len(keys) |->
                               ExactScore(keys[k], Len(same_values(keys[k])))])
    IN  SortedReverse(only_filled,
                      List([k \in 1..Len(only_filled) |-> <<only_filled[k].count>>]))

OnlyFilledValues(vals) ==
    LET stripped == StrippedFilled(vals)
        keys == DictKeys(List([i \in 1..Len(stripped) |-> Squished(stripped[i])]))
        same_values(k) == SelectSeq(stripped, LAMBDA v : Squished(v) = k)
        only_filled == List([k \in 1..Len(keys) |->
                               ExactScore(Longest(same_values(keys[k])),
                                          Len(same_values(keys[k])))])
    IN  SortedReverse(only_filled,
                      List([k \in 1..Len(only_filled) |-> <<only_filled[k].count>>]))

RECURSIVE SumCounts(_)
SumCounts(f) == IF f = <<>> THEN 0 ELSE f[1].count + SumCounts(Tail(f))

---------------------------------------------------------------------------
(* top_partial_ratio *)

FuzzyRatioScore(score, value) == [score |-> score, value |-> value]

\* values.reset_index(level=0, drop=True).to_dict(): a user's last text
UserDict(g, vals, u) ==
    vals[CHOOSE i \in 1..Len(g) :
             g[i].user = u /\ \A j \in 1..Len(g) : g[j].user = u => j <= i]

FirstIndex(g, u) ==
    CHOOSE i \in 1..Len(g) :
        g[i].user = u /\ \A j \in 1..Len(g) : g[j].user = u => i <= j

\* the inverted dict: of the users whose text it is, the last in dict order
UserAttributionGet(g, vals, value) ==
    LET us == {u \in {g[i].user : i \in 1..Len(g)} : UserDict(g, vals, u) = value}
    IN  IF us = {} THEN None
        ELSE CHOOSE u \in us : \A v \in us : FirstIndex(g, v) <= FirstIndex(g, u)

\* of two values of one length the second
PartialCandidate_TieSecond(a, b) == IF Len(a) > Len(b) THEN a ELSE b

\* userWeightedText.py:111
PartialCandidate(a, b) == IF Len(a) >= Len(b) THEN a ELSE b

\* a floor of 0 added to the ceiling
WeightedScore_Floor(score, scoreWeight) ==
    IF score + scoreWeight > 100 THEN 100
    ELSE IF score + scoreWeight < 0 THEN 0
    ELSE score + scoreWeight

\* score = score + scoreWeight, with the ceiling
WeightedScore(score, scoreWeight) ==
    IF score + scoreWeight > 100 THEN 100 ELSE score + scoreWeight

\* the user whose weight the pair's candidate gets
CandidateUser(g, vals, value) == UserAttributionGet(g, vals, value)

PartialScoresOf(g, vals, combo, tw, raw) ==
    List([k \in 1..Len(combo) |->
             LET value == PartialCandidate(vals[combo[k][1]], vals[combo[k][2]])
                 userName == CandidateUser(g, vals, value)
             IN  FuzzyRatioScore(WeightedScore(raw[k], WeightsGet(tw, userName)),
                                 value)])

PartialKey(s) == <<s.score, Len(s.value)>>

SortedPartial(sc) ==
    SortedReverse(sc, List([k \in 1..Len(sc) |-> PartialKey(sc[k])]))

---------------------------------------------------------------------------
(* top_token_set_ratio *)

FuzzySetScore(score, value, tokens) ==
    [score |-> score, value |-> value, tokens |-> tokens]

\* of two values of as many tokens the longer
TokenCandidate_TieLonger(a, b) ==
    LET tokens_0 == Len(Split(a))
        tokens_1 == Len(Split(b))
    IN  IF tokens_0 > tokens_1 THEN [value |-> a, tokens |-> tokens_0]
        ELSE IF tokens_0 < tokens_1 THEN [value |-> b, tokens |-> tokens_1]
        ELSE [value |-> IF Len(a) >= Len(b) THEN a ELSE b, tokens |-> tokens_0]

\* userWeightedText.py:129-141
TokenCandidate(a, b) ==
    LET tokens_0 == Len(Split(a))
        tokens_1 == Len(Split(b))
    IN  IF tokens_0 > tokens_1 THEN [value |-> a, tokens |-> tokens_0]
        ELSE IF tokens_0 < tokens_1 THEN [value |-> b, tokens |-> tokens_1]
        ELSE [value |-> IF Len(a) <= Len(b) THEN a ELSE b, tokens |-> tokens_0]

TokenScoresOf(vals, combo, raw) ==
    List([k \in 1..Len(combo) |->
             LET c == TokenCandidate(vals[combo[k][1]], vals[combo[k][2]])
             IN  FuzzySetScore(raw[k], c.value, c.tokens)])

TokenKey(s) == <<s.score, s.tokens, 1000000 - Len(s.value)>>

SortedToken(sc) ==
    SortedReverse(sc, List([k \in 1..Len(sc) |-> TokenKey(sc[k])]))

---------------------------------------------------------------------------
(* reconcile: the decision ladder *)

Str(n) == ToString(n)

Returned(reason, value) == <<[reason |-> reason, value |-> value]>>

\* userWeightedText.py:32
IsAllBlank(f) == f = <<>>

\* the test of a count above 1 left out
IsUnanimous_One(f, n) == f[1].count = n

\* userWeightedText.py:37
IsUnanimous(f, n) == f[1].count > 1 /\ f[1].count = n

\* a majority only where every other entry is blank
IsMajority_OthersBlank(f) == f[1].count > 1 /\ Len(f) = 1

\* userWeightedText.py:42
IsMajority(f) == f[1].count > 1

\* the check of line 48 left out
IsOnlyOne_Missing(f) == FALSE

\* userWeightedText.py:48
IsOnlyOne(f) == Len(f) = 1

\* the threshold itself refused
PartialAccepted_Strict(t, a) == t.score > a.fuzzy_ratio_threshold

\* userWeightedText.py:54
PartialAccepted(t, a) == t.score >= a.fuzzy_ratio_threshold

\* userWeightedText.py:61
TokenAccepted(t, a) == t.score >= a.fuzzy_set_threshold

BlankReason(n) ==
    <<P("The", n), Str(n), P("record", n), P("is", n), "blank">>

UnanimousReason(k, n) ==
    <<"Normalized", "unanimous", "match,", Str(k), "of", Str(n), P("record", n)>>

MajorityReason(k, n, b) ==
    <<"Normalized", "majority", "match,", Str(k), "of", Str(n), P("record", n),
      "with", Str(b), P("blank", b)>>

OnlyOneReason(n) == <<"Only", "1", "transcript", "in", Str(n), P("record", n)>>

PartialReason(n, b, score) ==
    <<"Partial", "ratio", "match", "on", Str(n), P("record", n),
      "with", Str(b), P("blank", b), ",", "score=", Str(score)>>

TokenReason(n, b, score) ==
    <<"Token", "set", "ratio", "match", "on", Str(n), P("record", n),
      "with", Str(b), P("blank", b), ",", "score=", Str(score)>>

NoMatchReason(n, b) ==
    <<"No", "text", "match", "on", Str(n), P("record", n),
      "with", Str(b), P("blank", b)>>

\* userWeightedText.py:18-50: from the call to the first fuzzy step
Reconcile ==
    /\ pc = "call"
    /\ UNCHANGED <<group, args, combos, raws, scores, top, mainVars>>
    /\ IF UserWeightsRaise(args.user_weights)
       THEN /\ pc' = "raised"
            /\ UNCHANGED <<trustedUserWeights, values, filled, count, blanks, result>>
       ELSE \E vals \in {List([i \in 1..Len(group) |-> ConvLine(group[i].text)])} :
            \E f \in {OnlyFilledValues(vals)} :
            LET n == Len(vals)
                b == n - SumCounts(f)
            IN  /\ trustedUserWeights' = TrustedUserWeights(args.user_weights)
                /\ values' = vals
                /\ filled' = f
                /\ count' = n
                /\ blanks' = b
                /\ IF IsAllBlank(f)
                   THEN pc' = "done" /\ result' = Returned(BlankReason(n), <<>>)
                   ELSE IF IsUnanimous(f, n)
                   THEN /\ pc' = "done"
                        /\ result' = Returned(UnanimousReason(f[1].count, n), f[1].value)
                   ELSE IF IsMajority(f)
                   THEN /\ pc' = "done"
                        /\ result' = Returned(MajorityReason(f[1].count, n, b), f[1].value)
                   ELSE IF IsOnlyOne(f)
                   THEN pc' = "done" /\ result' = Returned(OnlyOneReason(n), f[1].value)
                   ELSE pc' = "partial" /\ result' = <<>>

\* userWeightedText.py:97-118: top_partial_ratio up to the sort
TopPartialRatioScore ==
    /\ pc = "partial"
    /\ \E vals \in {List([i \in 1..Len(group) |-> ConvLine(group[i].text)])} :
       \E combo \in {Combinations2(Len(vals))} :
           \E two \in {List([k \in 1..Len(combo) |->
                   Cardinality(PartialRatioOutcomes(vals[combo[k][1]],
                                                    vals[combo[k][2]])) > 1])} :
           \E high \in Picks(combo, two) :
           \E raw \in {List([k \in 1..Len(combo) |->
                   Pick(PartialRatioOutcomes(vals[combo[k][1]], vals[combo[k][2]]),
                        high[k])])} :
               /\ combos' = combo
               /\ raws' = raw
               /\ scores' = PartialScoresOf(group, vals, combo, trustedUserWeights, raw)
    /\ pc' = "partial_scored"
    /\ UNCHANGED <<group, args, trustedUserWeights, values, filled, count, blanks,
                   top, result, mainVars>>

\* userWeightedText.py:119-122 and 53-57: scores[0] of an empty list raises;
\* the locals of top_partial_ratio end with its return
TopPartialRatioReturn ==
    /\ pc = "partial_scored"
    /\ UNCHANGED <<group, args, trustedUserWeights, values, filled, count, blanks,
                   mainVars>>
    /\ combos' = <<>> /\ raws' = <<>> /\ scores' = <<>>
    /\ IF scores = <<>>
       THEN pc' = "raised" /\ UNCHANGED <<top, result>>
       ELSE LET t == SortedPartial(scores)[1]
            IN  /\ top' = <<t>>
                /\ IF PartialAccepted(t, args)
                   THEN /\ pc' = "done"
                        /\ result' = Returned(PartialReason(count, blanks, t.score), t.value)
                   ELSE pc' = "token" /\ UNCHANGED result

\* userWeightedText.py:125-143: top_token_set_ratio up to the sort
TopTokenSetRatioScore ==
    /\ pc = "token"
    /\ \E combo \in {Combinations2(Len(values))} :
           \E two \in {List([k \in 1..Len(combo) |->
                   Cardinality(TokenSetRatioOutcomes(values[combo[k][1]],
                                                     values[combo[k][2]])) > 1])} :
           \E high \in Picks(combo, two) :
           \E raw \in {List([k \in 1..Len(combo) |->
                   Pick(TokenSetRatioOutcomes(values[combo[k][1]], values[combo[k][2]]),
                        high[k])])} :
               /\ combos' = combo
               /\ raws' = raw
               /\ scores' = TokenScoresOf(values, combo, raw)
    /\ pc' = "token_scored"
    /\ UNCHANGED <<group, args, trustedUserWeights, values, filled, count, blanks,
                   top, result, mainVars>>

\* userWeightedText.py:145-149 and 60-68
TopTokenSetRatioReturn ==
    /\ pc = "token_scored"
    /\ UNCHANGED <<group, args, trustedUserWeights, values, filled, count, blanks,
                   mainVars>>
    /\ combos' = <<>> /\ raws' = <<>> /\ scores' = <<>>
    /\ IF scores = <<>>
       THEN pc' = "raised" /\ UNCHANGED <<top, result>>
       ELSE LET t == SortedToken(scores)[1]
            IN  /\ top' = <<t>>
                /\ pc' = "done"
                /\ IF TokenAccepted(t, args)
                   THEN result' = Returned(TokenReason(count, blanks, t.score), t.value)
                   ELSE result' = Returned(NoMatchReason(count, blanks), <<>>)

---------------------------------------------------------------------------
(* The inputs of a call of reconcile *)

T_blank == <<>>
T_nl == <<"\n", " ">>
T_Ohio == <<"O", "h", "i", "o">>
T_ohioDot == <<"o", "h", "i", "o", ".">>
T_OHIO == <<"O", "H", "I", "O">>
T_ab == <<"a", " ", "b">>
T_ba == <<"b", " ", " ", "a">>
T_x == <<"x">>

Pool == {T_blank, T_nl, T_Ohio, T_ohioDot, T_OHIO, T_ab, T_ba, T_x}

U_As == <<"A", "s">>
U_as == <<"a", "s">>

U_bo == <<"b", "o">>

WeightedUsers == {U_As, U_as, U_bo}

WeightedPool == {T_blank, T_Ohio, T_ab, T_x}

\* --user-weights as reconcile splits it: a string
WeightOption(items) == [kind |-> "str", items |-> items]

WeightOptions ==
    { WeightOption(<< <<U_as, "10">> >>),
      WeightOption(<< <<U_As, "70">> >>),
      WeightOption(<< <<U_as, "-100">> >>),
      WeightOption(<< <<U_as, "70">>, <<U_As, "-100">> >>) }

DefaultRatioThreshold == 90

DefaultSetThreshold == 50

Thresholds == { <<DefaultRatioThreshold, DefaultSetThreshold>>, <<0, 0>>, <<100, 100>> }

Args(uw, thr) ==
    [user_weights |-> uw, fuzzy_ratio_threshold |-> thr[1], fuzzy_set_threshold |-> thr[2]]

\* the user of the n-th row of a group whose users all differ
RowUser(i) == <<"u", Str(i)>>

GroupSizes == 1..MaxGroup

\* groups of any texts, every row by another user, no user weights
TextInputs ==
    /\ \E n \in GroupSizes : \E t \in [1..n -> Pool] :
           group = [i \in 1..n |-> [user |-> RowUser(i), text |-> t[i]]]
    /\ \E thr \in Thresholds : args = Args(WeightOption(<<>>), thr)

\* nfn.py:52: a group has one row of a user
Injective(u) == \A i, j \in DOMAIN u : u[i] = u[j] => i = j

\* groups by users two of whose names differ in case only, with user weights
WeightInputs ==
    /\ \E n \in GroupSizes : \E t \in [1..n -> WeightedPool] :
       \E u \in {v \in [1..n -> WeightedUsers] : Injective(v)} :
           group = [i \in 1..n |-> [user |-> u[i], text |-> t[i]]]
    /\ \E uw \in WeightOptions :
           args = Args(uw, <<DefaultRatioThreshold, DefaultSetThreshold>>)

WidePool == {T_blank, T_nl, T_Ohio, T_ab}

\* groups of one entry more, of few texts, with the default thresholds
WideInputs ==
    /\ \E t \in [1..(MaxGroup + 1) -> WidePool] :
           group = [i \in 1..(MaxGroup + 1) |-> [user |-> RowUser(i), text |-> t[i]]]
    /\ args = Args(WeightOption(<<>>), <<DefaultRatioThreshold, DefaultSetThreshold>>)

\* a call of reconcile that main did not make
NoCli == [user_weights |-> <<>>, thresholds |-> <<0, 0>>, outputs |-> {}]

NoInput == [records |-> 0, columns |-> <<>>, key_headers |-> <<TRUE, TRUE>>]

Locals ==
    /\ trustedUserWeights = <<>>
    /\ values = <<>>
    /\ filled = <<>>
    /\ count = 0
    /\ blanks = 0
    /\ combos = <<>>
    /\ raws = <<>>
    /\ scores = <<>>
    /\ top = <<>>
    /\ result = <<>>

Init ==
    /\ TextInputs \/ WeightInputs \/ WideInputs
    /\ pc = "call"
    /\ Locals
    /\ mpc = "direct"
    /\ cli = NoCli
    /\ input = NoInput
    /\ files = {}
    /\ reconciled = 0

Next ==
    \/ Reconcile
    \/ TopPartialRatioScore
    \/ TopPartialRatioReturn
    \/ TopTokenSetRatioScore
    \/ TopTokenSetRatioReturn

Spec == Init /\ [][Next]_vars

---------------------------------------------------------------------------
(* reconcile.py: main.  A run is started with a command line (cli) on an   *)
(* input file (input); args is the argparse namespace.                     *)

\* the column types of the epilog of the help text
PluginTypes == {"select", "text", "same", "mmr"}

\* reconcile.py:142-148: lowercased user id -> integer
UserWeightsDict(items) ==
    [kind |-> "dict",
     items |-> List([i \in 1..Len(items) |->
                        <<Lower(items[i][1]), IntValue(items[i][2])>>])]

\* reconcile.py:150 and 154
OutOfRange(threshold) == threshold < 0 \/ threshold > 100

\* reconcile.py:17-158: a malformed entry raises ValueError, a threshold out
\* of range exits
ParseCommandLine ==
    /\ mpc = "start"
    /\ IF Truthy(args.user_weights) /\ Malformed(args.user_weights.items)
       THEN mpc' = "error" /\ UNCHANGED args
       ELSE /\ args' = [args EXCEPT !.user_weights = UserWeightsDict(@.items)]
            /\ mpc' = IF \/ OutOfRange(args.fuzzy_ratio_threshold)
                         \/ OutOfRange(args.fuzzy_set_threshold)
                      THEN "exit"
                      ELSE "parsed"
    /\ UNCHANGED <<group, pc, trustedUserWeights, values, filled, count, blanks,
                   combos, raws, scores, top, result, cli, input, files, reconciled>>

\* the test of the column type left out
ColumnErrors_HeadersOnly(columns) ==
    \E i \in 1..Len(columns) : ~columns[i].header

\* reconcile.py:220-227: the loop over the column types
ColumnErrors(columns) ==
    \E i \in 1..Len(columns) :
        ~columns[i].header \/ columns[i].type \notin PluginTypes

\* reconcile.py:229-241: has_errors is tested after each of the two key
\* columns is looked up
ValidateColumnsExits(columns, key_headers) ==
    LET after_group_by == ColumnErrors(columns) \/ ~key_headers[1]
        after_key_column == after_group_by \/ ~key_headers[2]
    IN  after_group_by \/ after_key_column

\* reconcile.py:248-256
ReadAndValidate ==
    /\ mpc = "parsed"
    /\ mpc' = IF input.records = 0 THEN "exit"
              ELSE IF ValidateColumnsExits(input.columns, input.key_headers)
              THEN "exit"
              ELSE "validated"
    /\ UNCHANGED <<fnVars, cli, input, files, reconciled>>

Reconciles(outputs) == outputs \cap {"reconciled", "summary", "merged"} # {}

\* reconcile.py:258-261
WriteUnreconciled ==
    /\ mpc = "validated"
    /\ files' = IF "unreconciled" \in cli.outputs
                THEN files \cup {"unreconciled"}
                ELSE files
    /\ mpc' = IF Reconciles(cli.outputs) THEN "build" ELSE "finished"
    /\ UNCHANGED <<fnVars, cli, input, reconciled>>

Rows(texts) == List([i \in 1..Len(texts) |-> [user |-> RowUser(i), text |-> texts[i]]])

\* the groups of the text column of the input file
MainGroups ==
    { Rows(<<T_Ohio, T_Ohio, T_ohioDot>>),
      Rows(<<T_blank, T_nl>>),
      Rows(<<T_ab, T_ba>>),
      Rows(<<T_Ohio, T_ab, T_blank>>) }

\* reconciler.build: the next group of the text column goes to its plug-in
BuildCall ==
    /\ mpc = "build"
    /\ pc = "idle"
    /\ reconciled < input.records
    /\ group' \in MainGroups
    /\ pc' = "call"
    /\ UNCHANGED <<args, trustedUserWeights, values, filled, count, blanks,
                   combos, raws, scores, top, result, mainVars>>

\* reconciler.build: the plug-in returned
BuildReturn ==
    /\ mpc = "build"
    /\ pc = "done"
    /\ reconciled' = reconciled + 1
    /\ pc' = "idle"
    /\ UNCHANGED <<group, args, trustedUserWeights, values, filled, count, blanks,
                   combos, raws, scores, top, result, mpc, cli, input, files>>

\* reconciler.build: nothing catches what the plug-in raises
BuildRaise ==
    /\ mpc = "build"
    /\ pc = "raised"
    /\ mpc' = "error"
    /\ UNCHANGED <<fnVars, cli, input, files, reconciled>>

\* reconcile.py:265-280
WriteOutputs ==
    /\ mpc = "build"
    /\ pc = "idle"
    /\ reconciled = input.records
    /\ files' = files \cup (cli.outputs \cap {"reconciled", "summary", "merged"})
    /\ mpc' = "finished"
    /\ UNCHANGED <<fnVars, cli, input, reconciled>>

\* --user-weights as typed: none, "as:10", "As" and "as:x"
MainWeightOptions ==
    { <<>>, << <<U_as, "10">> >>, << <<U_As>> >>, << <<U_as, "x">> >> }

MainThresholds == { <<DefaultRatioThreshold, DefaultSetThreshold>>, <<101, 50>>, <<90, -1>> }

Column(header, type) == [header |-> header, type |-> type]

ColumnChoices ==
    { << Column(TRUE, "text") >>,
      << Column(TRUE, "text"), Column(TRUE, "bogus") >>,
      << Column(FALSE, "text") >> }

OutputChoices ==
    { {}, {"unreconciled"}, {"unreconciled", "reconciled"}, {"summary", "merged"} }

InitMain ==
    /\ \E uw \in MainWeightOptions : \E thr \in MainThresholds :
       \E out \in OutputChoices :
           cli = [user_weights |-> uw, thresholds |-> thr, outputs |-> out]
    /\ \E n \in 0..MaxRecords : \E cols \in ColumnChoices :
       \E keys \in {<<TRUE, TRUE>>, <<TRUE, FALSE>>, <<FALSE, TRUE>>} :
           input = [records |-> n, columns |-> cols, key_headers |-> keys]
    /\ args = Args(WeightOption(cli.user_weights), cli.thresholds)
    /\ mpc = "start"
    /\ group = <<>>
    /\ pc = "idle"
    /\ Locals
    /\ files = {}
    /\ reconciled = 0

NextMain ==
    \/ ParseCommandLine
    \/ ReadAndValidate
    \/ WriteUnreconciled
    \/ BuildCall
    \/ BuildReturn
    \/ BuildRaise
    \/ WriteOutputs
    \/ Reconcile
    \/ TopPartialRatioScore
    \/ TopPartialRatioReturn
    \/ TopTokenSetRatioScore
    \/ TopTokenSetRatioReturn

SpecMain == InitMain /\ [][NextMain]_vars

---------------------------------------------------------------------------
(* What the claims speak of, stated on the inputs *)

NoUserWeights == ~Truthy(args.user_weights)

Texts == List([i \in 1..Len(group) |-> group[i].text])

\* blank after whitespace normalization: nothing but whitespace
IsBlank(t) == \A j \in 1..Len(t) : IsSpace(t[j])

AllBlank == \A i \in 1..Len(group) : IsBlank(group[i].text)

NoBlank == \A i \in 1..Len(group) : ~IsBlank(group[i].text)

\* the comparison key: non-word characters stripped, lower-cased
ComparisonKey(t) ==
    LET word == SelectSeq(t, IsWordChar)
    IN  List([j \in 1..Len(word) |-> LowerChar(word[j])])

\* the number of non-blank entries that share the key of entry i
KeyGroupSize(i) ==
    Cardinality({j \in 1..Len(group) :
                    /\ ~IsBlank(group[j].text)
                    /\ ComparisonKey(group[j].text) = ComparisonKey(group[i].text)})

\* the size of the largest key-group, 0 for an all-blank group
LargestKeyGroup ==
    LET sizes == {KeyGroupSize(i) : i \in {j \in 1..Len(group) : ~IsBlank(group[j].text)}}
    IN  IF sizes = {} THEN 0 ELSE CHOOSE m \in sizes : \A x \in sizes : x <= m

\* the literal variant of entry i: its normalized, trimmed text
Variant(i) == Strip(ConvLine(group[i].text))

Returns == pc = "done" /\ Len(result) = 1

Reason == result[1].reason

InReason(word) == \E i \in 1..Len(Reason) : Reason[i] = word

ReasonStarts(words) == Len(Reason) >= Len(words) /\ SubSeq(Reason, 1, Len(words)) = words

ScoredStep == pc \in {"partial_scored", "token_scored"}

---------------------------------------------------------------------------
(* C1: with no user weights configured, whatever the group and the         *)
(* thresholds, reconcile never raises, the list of scored pairs is never   *)
(* empty when the ladder reaches top_partial_ratio or top_token_set_ratio, *)
(* and what the call returns is exactly one (explanation, value) pair.     *)
C1_NeverRaises ==
    NoUserWeights =>
        /\ pc # "raised"
        /\ (ScoredStep => scores # <<>>)
        /\ (pc = "done" =>
               /\ Len(result) = 1
               /\ DOMAIN result[1] = {"reason", "value"}
               /\ Reason # <<>>)

\* a group with a blank entry went through both fuzzy steps and returned
C1_Witness ==
    /\ NoUserWeights
    /\ Returns
    /\ \E i \in 1..Len(group) : IsBlank(group[i].text)
    /\ ReasonStarts(<<"No", "text", "match">>)

---------------------------------------------------------------------------
(* The configuration errors of a run, stated on its command line and input *)

UnknownColumnType ==
    \E i \in 1..Len(input.columns) : input.columns[i].type \notin PluginTypes

\* an entry that is not key:integer
MalformedWeights == Malformed(cli.user_weights)

ThresholdError == \E i \in 1..2 : OutOfRange(cli.thresholds[i])

ConfigurationError == UnknownColumnType \/ MalformedWeights \/ ThresholdError

\* C2: a run with a configuration error (an unknown column type, a
\* malformed --user-weights entry, a threshold outside [0,100]) never gets
\* past validate_columns: reconcile is never called, no group is reconciled
\* and no file is written.
C2_ConfigErrorAbortsFirst ==
    ConfigurationError =>
        /\ mpc \in {"start", "parsed", "exit", "error"}
        /\ pc = "idle"
        /\ reconciled = 0
        /\ files = {}

\* a run whose only fault is an unknown column type has exited
C2_Witness ==
    /\ UnknownColumnType
    /\ ~MalformedWeights /\ ~ThresholdError
    /\ \A i \in 1..Len(input.columns) : input.columns[i].header
    /\ input.key_headers = <<TRUE, TRUE>>
    /\ input.records > 0
    /\ "unreconciled" \in cli.outputs /\ "reconciled" \in cli.outputs
    /\ mpc = "exit"
    /\ files = {}

\* C3: a run started with a well-formed, non-empty --user-weights option
\* never dies of an exception: no call of reconcile raises, and the run
\* either exits during validation or goes on to write its outputs.
C3_WeightedRunCompletes ==
    (cli.user_weights # <<>> /\ ~MalformedWeights) =>
        pc # "raised" /\ mpc # "error"

---------------------------------------------------------------------------
(* The ladder's first steps *)

\* C4: for a group all of whose entries are blank after whitespace
\* normalization, reconcile returns the value "" with an explanation that
\* has the word "blank" and the number of entries, and no later step of the
\* ladder is evaluated: neither fuzzy step is ever entered.
C4_AllBlankGroup ==
    AllBlank =>
        /\ pc \in {"call", "done"}
        /\ scores = <<>> /\ top = <<>>
        /\ (pc = "done" =>
               /\ Len(result) = 1
               /\ result[1].value = <<>>
               /\ InReason("blank")
               /\ InReason(Str(Len(group))))

\* a group of two or more blank entries, one of them a line break and a
\* space, has returned
C4_Witness ==
    /\ AllBlank
    /\ Len(group) >= 2
    /\ \E i \in 1..Len(group) : group[i].text = T_nl
    /\ Returns
    /\ result[1].value = <<>>

SameKey == \A i, j \in 1..Len(group) :
               ComparisonKey(group[i].text) = ComparisonKey(group[j].text)

\* entry i is the first of the longest literal variants of the group
FirstLongest(i) ==
    /\ \A j \in 1..Len(group) : Len(Variant(j)) <= Len(Variant(i))
    /\ \A j \in 1..(i - 1) : Len(Variant(j)) < Len(Variant(i))

\* C5: for a group of n >= 2 entries, none blank, that share one comparison
\* key, reconcile returns "Normalized unanimous match, n of n" and the
\* value is the longest literal variant, of variants of equal length the
\* one that occurs first in the group.
C5_Unanimous ==
    (Returns /\ Len(group) >= 2 /\ NoBlank /\ SameKey) =>
        /\ ReasonStarts(<<"Normalized", "unanimous", "match,",
                          Str(Len(group)), "of", Str(Len(group))>>)
        /\ \E i \in 1..Len(group) : FirstLongest(i) /\ result[1].value = Variant(i)

\* two different variants of the longest length, the first of them returned
C5_Witness ==
    /\ Returns /\ Len(group) >= 2 /\ NoBlank /\ SameKey
    /\ \E i, j \in 1..Len(group) :
           /\ i < j
           /\ FirstLongest(i)
           /\ Len(Variant(j)) = Len(Variant(i))
           /\ Variant(j) # Variant(i)
           /\ result[1].value = Variant(i)

OhioGroup ==
    /\ Texts = <<T_Ohio, T_Ohio, T_ohioDot>>
    /\ NoUserWeights
    /\ args.fuzzy_ratio_threshold = DefaultRatioThreshold
    /\ args.fuzzy_set_threshold = DefaultSetThreshold

\* C6 as the specification has it: for the group ["Ohio", "Ohio", "ohio."]
\* with the default configuration, reconcile returns "Normalized unanimous
\* match, 3 of 3 records" and the value "Ohio".
C6_OhioReturnsOhio ==
    (OhioGroup /\ Returns) =>
        /\ Reason = <<"Normalized", "unanimous", "match,", "3", "of", "3", "records">>
        /\ result[1].value = T_Ohio

\* C6 as the code has it: for the group ["Ohio", "Ohio", "ohio."] with the
\* default configuration, reconcile returns "Normalized unanimous match,
\* 3 of 3 records" and the value "ohio.", the longest of the three variants.
C6_OhioReturnsLongest ==
    (OhioGroup /\ Returns) =>
        /\ Reason = <<"Normalized", "unanimous", "match,", "3", "of", "3", "records">>
        /\ result[1].value = T_ohioDot

C6_Witness ==
    /\ OhioGroup
    /\ Returns
    /\ result[1].value = T_ohioDot

MajorityReturned == ReasonStarts(<<"Normalized", "majority", "match,">>)

SomeBlank == \E i \in 1..Len(group) : IsBlank(group[i].text)

\* C7 as the specification has it: reconcile returns a "Normalized majority
\* match" if and only if the largest key-group has count > 1 and the group
\* has at least one blank entry; a group whose largest key-group has count
\* > 1, with no blank entry and not unanimous, goes on to the later steps.
C7_MajorityNeedsBlank ==
    Returns => (MajorityReturned <=> (LargestKeyGroup > 1 /\ SomeBlank))

\* C7 as the code has it: reconcile returns a "Normalized majority match"
\* if and only if the largest key-group has count > 1 and is not the whole
\* group, with or without a blank entry; such a group never reaches the
\* fuzzy steps.
C7_MajorityNeedsNoBlank ==
    /\ Returns =>
          (MajorityReturned <=>
              (LargestKeyGroup > 1 /\ LargestKeyGroup < Len(group)))
    /\ (LargestKeyGroup > 1 /\ pc # "call") => Returns /\ top = <<>>

\* two agreeing entries and a differing one, none blank: a majority match
C7_Witness ==
    /\ Returns
    /\ NoBlank
    /\ Len(group) = 3
    /\ LargestKeyGroup = 2
    /\ Reason = <<"Normalized", "majority", "match,", "2", "of", "3", "records",
                  "with", "0", "blanks">>

---------------------------------------------------------------------------
(* Step 7: the weighted partial ratio *)

\* the rows whose normalized text is the candidate of the k-th pair
Authors(k) == {i \in 1..Len(group) : values[i] = scores[k].value}

\* the weight configured for a user id, 0 for one absent from the map
ConfiguredWeight(u) ==
    LET items == args.user_weights.items
        hits == {i \in 1..Len(items) : items[i][1] = u}
    IN  IF hits = {} THEN 0
        ELSE IntValue(items[CHOOSE i \in hits : \A j \in hits : j <= i][2])

Min100(x) == IF x > 100 THEN 100 ELSE x

\* the weights an author can be given
WeightRange == {-100, 0, 10, 70}

\* C8: in step 7 the effective score of a pair is min(100, raw score +
\* weight of the candidate's author), 0 for an author absent from the
\* weight map, with no lower bound: it never exceeds 100, and it is
\* non-decreasing in the author's weight.
C8_EffectiveScore ==
    pc = "partial_scored" =>
        \A k \in 1..Len(scores) :
            /\ scores[k].score <= 100
            /\ \E i \in Authors(k) :
                   scores[k].score = Min100(raws[k] + ConfiguredWeight(group[i].user))
            /\ \A w1, w2 \in WeightRange :
                   w1 <= w2 => WeightedScore(raws[k], w1) <= WeightedScore(raws[k], w2)

\* a pair scored below zero and a pair cut to 100 in one group
C8_Witness ==
    /\ pc = "partial_scored"
    /\ \E k \in 1..Len(scores) :
           /\ scores[k].score < 0
           /\ scores[k].score < raws[k]
           /\ Cardinality(Authors(k)) = 1
    /\ \E k \in 1..Len(scores) :
           /\ scores[k].score = 100
           /\ raws[k] < 100
           /\ Cardinality(Authors(k)) = 1

\* the weight of a user id looked up without regard to letter case
CaseInsensitiveWeight(u) ==
    LET items == args.user_weights.items
        hits == {i \in 1..Len(items) : Lower(items[i][1]) = Lower(u)}
    IN  IF hits = {} THEN 0
        ELSE IntValue(items[CHOOSE i \in hits : \A j \in hits : j <= i][2])

\* C9: the weight lookup of step 7 is case-insensitive in the user id: the
\* weight applied to a candidate is the one configured for its author's id
\* in any letter case.
C9_CaseInsensitiveLookup ==
    pc = "partial_scored" =>
        \A k \in 1..Len(scores) :
            \E i \in Authors(k) :
                scores[k].score = Min100(raws[k] + CaseInsensitiveWeight(group[i].user))

---------------------------------------------------------------------------
(* Steps 7 to 9: the thresholds *)

\* the best score of the scored pairs
TopScore == CHOOSE x \in {scores[k].score : k \in 1..Len(scores)} :
                \A k \in 1..Len(scores) : scores[k].score <= x

Winners == {scores[k].value : k \in {j \in 1..Len(scores) : scores[j].score = TopScore}}

Starts(reason, words) ==
    Len(reason) >= Len(words) /\ SubSeq(reason, 1, Len(words)) = words

C10_Step ==
    /\ (pc = "partial_scored" /\ scores # <<>>) =>
           IF TopScore >= args.fuzzy_ratio_threshold
           THEN /\ pc' = "done"
                /\ Len(result') = 1
                /\ Starts(result'[1].reason, <<"Partial", "ratio", "match">>)
                /\ result'[1].value \in Winners
           ELSE /\ pc' = "token"
                /\ result' = <<>>
    /\ (pc = "token_scored" /\ scores # <<>>) =>
           /\ pc' = "done"
           /\ Len(result') = 1
           /\ IF TopScore >= args.fuzzy_set_threshold
              THEN /\ Starts(result'[1].reason, <<"Token", "set", "ratio", "match">>)
                   /\ result'[1].value \in Winners
              ELSE /\ Starts(result'[1].reason, <<"No", "text", "match">>)
                   /\ result'[1].value = <<>>

\* C10: when the ladder reaches step 7, a best effective partial-ratio
\* score S >= fuzzy_ratio_threshold, S equal to it included, gives a
\* "Partial ratio match" with the winner as value; any lower S gives no
\* partial-ratio result, and the token-set step alone decides: "Token set
\* ratio match" if its best score >= fuzzy_set_threshold, else "No text
\* match" with the value "".
C10_ThresholdDecides == [][C10_Step]_vars

\* a best score equal to the default threshold was accepted
C10_Witness ==
    /\ Returns
    /\ ReasonStarts(<<"Partial", "ratio", "match">>)
    /\ args.fuzzy_ratio_threshold = DefaultRatioThreshold
    /\ top[1].score = DefaultRatioThreshold

---------------------------------------------------------------------------
(* Copies, counts and pairs *)

\* the group is one or more copies of one non-blank value
Copies == NoBlank /\ \A i \in 1..Len(group) : group[i].text = group[1].text

\* C11: the group of k >= 2 copies of a non-blank value v and the group [v]
\* return the same value, the normalized and trimmed v; only the
\* explanation differs, a unanimous match for the copies and "Only 1
\* transcript" for the single entry.
C11_CopiesReturnTheValue ==
    (Copies /\ pc # "call") =>
        /\ Returns
        /\ result[1].value = Strip(ConvLine(group[1].text))
        /\ IF Len(group) = 1
           THEN ReasonStarts(<<"Only", "1", "transcript">>)
           ELSE ReasonStarts(<<"Normalized", "unanimous", "match,">>)

\* three copies of a value with a run of two spaces returned it normalized
C11_Witness ==
    /\ Copies
    /\ Len(group) = 3
    /\ group[1].text = T_ba
    /\ Returns
    /\ result[1].value = <<"b", " ", "a">>

FilledEntries == {i \in 1..Len(group) : ~IsBlank(group[i].text)}

BlankEntries == {i \in 1..Len(group) : IsBlank(group[i].text)}

\* the non-blank entries counted in key-group k
Members(k) ==
    {i \in FilledEntries :
        ComparisonKey(group[i].text) = ComparisonKey(filled[k].value)}

\* C12: the key-groups of only_filled_values partition the non-blank
\* entries: every non-blank entry is in exactly one key-group and no blank
\* entry in any, the counts add up to the number of non-blank entries, and
\* the blank count of reconcile is the number of blank entries, never
\* negative.
C12_KeyGroupsPartition ==
    pc # "call" =>
        /\ count = Len(group)
        /\ \A k \in 1..Len(filled) : filled[k].count = Cardinality(Members(k))
        /\ \A i \in FilledEntries :
               Cardinality({k \in 1..Len(filled) : i \in Members(k)}) = 1
        /\ SumCounts(filled) = Cardinality(FilledEntries)
        /\ blanks = Cardinality(BlankEntries)
        /\ blanks >= 0
        /\ count = SumCounts(filled) + blanks

\* a blank entry beside two entries of one key that are written differently
C12_Witness ==
    /\ pc = "done"
    /\ Len(group) = 3
    /\ blanks = 1
    /\ Len(filled) = 1
    /\ filled[1].count = 2
    /\ \E i, j \in FilledEntries : group[i].text # group[j].text

\* C13: the pairs scored in step 7 and in step 8 are exactly the unordered
\* pairs of filled entries of the group: no blank entry is a member of a
\* scored pair.
C13_PairsOfFilledEntries ==
    ScoredStep =>
        /\ \A k \in 1..Len(combos) :
               combos[k][1] \in FilledEntries /\ combos[k][2] \in FilledEntries
        /\ \A i, j \in FilledEntries :
               i < j => \E k \in 1..Len(combos) : combos[k] = <<i, j>>

---------------------------------------------------------------------------
(* Candidates and winners of the fuzzy steps *)

\* pair j ranks above pair k in step 7: a higher score, or the same score
\* and a longer candidate
PartialAbove(j, k) ==
    \/ scores[j].score > scores[k].score
    \/ /\ scores[j].score = scores[k].score
       /\ Len(scores[j].value) > Len(scores[k].value)

\* pair k is the first of the pairs that no pair ranks above
PartialWinner(k) ==
    /\ \A j \in 1..Len(scores) : ~PartialAbove(j, k)
    /\ \A j \in 1..(k - 1) : PartialAbove(k, j)

C14_Step ==
    pc = "partial_scored" =>
        /\ \A k \in 1..Len(scores) :
               LET a == values[combos[k][1]]
                   b == values[combos[k][2]]
               IN  /\ combos[k][1] < combos[k][2]
                   /\ scores[k].value = IF Len(b) > Len(a) THEN b ELSE a
        /\ \A k \in 1..Len(scores) :
               (k > 1 => \/ combos[k - 1][1] < combos[k][1]
                         \/ /\ combos[k - 1][1] = combos[k][1]
                            /\ combos[k - 1][2] < combos[k][2])
        /\ scores # <<>> =>
               \E k \in 1..Len(scores) : PartialWinner(k) /\ top' = <<scores[k]>>

\* C14: in step 7 the candidate of a pair is its longer member, of two
\* members of one length the one that comes first in the group; the winner
\* is the candidate of the highest effective score, of those the longest,
\* of those the one of the first pair in the order the pairs are enumerated.
C14_PartialWinner == [][C14_Step]_vars

\* two pairs with different candidates of one length share the best score,
\* and one of them is a pair of two values of one length
C14_Witness ==
    /\ pc = "partial_scored"
    /\ \E j, k \in 1..Len(scores) :
           /\ j < k
           /\ PartialWinner(j)
           /\ ~PartialAbove(j, k)
           /\ scores[j].value # scores[k].value
           /\ Len(values[combos[j][1]]) = Len(values[combos[j][2]])

\* the whitespace-separated tokens of a value
TokenCount(v) == Len(Split(v))

\* pair j ranks above pair k in step 8: a higher score, or the same score
\* and more tokens, or the same of both and a shorter candidate
TokenAbove(j, k) ==
    \/ scores[j].score > scores[k].score
    \/ /\ scores[j].score = scores[k].score
       /\ scores[j].tokens > scores[k].tokens
    \/ /\ scores[j].score = scores[k].score
       /\ scores[j].tokens = scores[k].tokens
       /\ Len(scores[j].value) < Len(scores[k].value)

\* pair k is the first of the pairs that no pair ranks above
TokenWinner(k) ==
    /\ \A j \in 1..Len(scores) : ~TokenAbove(j, k)
    /\ \A j \in 1..(k - 1) : TokenAbove(k, j)

C15_Step ==
    pc = "token_scored" =>
        /\ \A k \in 1..Len(scores) :
               LET a == values[combos[k][1]]
                   b == values[combos[k][2]]
               IN  /\ combos[k][1] < combos[k][2]
                   /\ scores[k].value =
                          IF TokenCount(a) > TokenCount(b) THEN a
                          ELSE IF TokenCount(a) < TokenCount(b) THEN b
                          ELSE IF Len(b) < Len(a) THEN b
                          ELSE a
                   /\ scores[k].tokens = TokenCount(scores[k].value)
                   /\ scores[k].score = raws[k]
        /\ scores # <<>> =>
               \E k \in 1..Len(scores) : TokenWinner(k) /\ top' = <<scores[k]>>

\* C15: in step 8 the candidate of a pair is the member of more
\* whitespace-separated tokens, of two members of as many tokens the
\* shorter, of two of one length the first; the winner is ranked by score,
\* then by more tokens, then by fewer characters, then by the order of the
\* pairs; and the score of a pair is the raw token-set score, whatever the
\* user weights.
C15_TokenWinner == [][C15_Step]_vars

\* with user weights configured, a pair of two values of one token whose
\* second member is the shorter, and so its candidate
C15_Witness ==
    /\ pc = "token_scored"
    /\ trustedUserWeights # <<>>
    /\ \E k \in 1..Len(scores) :
           /\ TokenCount(values[combos[k][1]]) = TokenCount(values[combos[k][2]])
           /\ Len(values[combos[k][2]]) < Len(values[combos[k][1]])
           /\ scores[k].value = values[combos[k][2]]
           /\ TokenWinner(k)

---------------------------------------------------------------------------
(* The single transcript and the value of a fuzzy match *)

OnlyOneReturned ==
    ReasonStarts(<<"Only", "1", "transcript", "in", Str(Len(group))>>)

\* C16: reconcile returns "Only 1 transcript in n records" if and only if
\* exactly one entry of the group is not blank, n = 1 included, and the
\* value is then that entry, normalized and trimmed; a group of two or more
\* non-blank entries never returns it.
C16_OnlyOneTranscript ==
    Returns =>
        /\ OnlyOneReturned <=> Cardinality(FilledEntries) = 1
        /\ OnlyOneReturned => \A i \in FilledEntries : result[1].value = Variant(i)

\* one entry with a run of two spaces between two blank entries
C16_Witness ==
    /\ Returns
    /\ Len(group) = 3
    /\ FilledEntries = {2}
    /\ group[2].text = T_ba
    /\ OnlyOneReturned
    /\ result[1].value = <<"b", " ", "a">>

FuzzyMatchReturned ==
    \/ ReasonStarts(<<"Partial", "ratio", "match">>)
    \/ ReasonStarts(<<"Token", "set", "ratio", "match">>)

\* C17: whenever reconcile returns a "Partial ratio match" or a "Token set
\* ratio match", the value is not blank and is the whitespace-normalized
\* text of a filled entry of the group, whatever the group, the weights and
\* the thresholds.
C17_MatchIsAFilledEntry ==
    (Returns /\ FuzzyMatchReturned) =>
        /\ ~IsBlank(result[1].value)
        /\ \E i \in FilledEntries : result[1].value = ConvLine(group[i].text)

=============================================================================
